---- MODULE Spec2Model ----
\* Model of example_classification.py: the two feeding variants
\* classification_queue_input and classification_placeholder_input, the
\* float32 pixel arithmetic of the explicit-batch variant, and the
\* arg-max / label-shift decoding both variants share.
EXTENDS Integers, Sequences, FiniteSets, TLC

\* ---------------------------------------------------------------- bounds
MaxFiles == 2
MaxBatch == 2
RowLen == 2

\* pixel values stored in the image files of the main specification
PixelSamples == {1, 255}
\* --num_classes values tried (argparse accepts any int)
NumClassesValues == {999, 1000, 1001, 1002}
\* scores a logit can take: equal scores give the ties np.argmax breaks
Scores == {0, 1}
Rows == [1..RowLen -> Scores]

VARIABLES variant, dir, image_files, batch_size, num_classes, pc, i,
          batch_images, queue, fed, outputs, predictions, displayed,
          error, log

vars == <<variant, dir, image_files, batch_size, num_classes, pc, i,
          batch_images, queue, fed, outputs, predictions, displayed,
          error, log>>

\* ------------------------------------------------------- float32 values
\* A float32 is [m, e] with value m * 2^e; m = 0 (and e = 0) or
\* 2^23 <= |m| < 2^24.
Abs(n) == IF n < 0 THEN 0 - n ELSE n

Sign(n) == IF n < 0 THEN 0 - 1 ELSE 1

RECURSIVE BitLen(_)
BitLen(a) == IF a = 0 THEN 0 ELSE 1 + BitLen(a \div 2)

F32Zero == [m |-> 0, e |-> 0]

\* round-to-nearest-even of the exact value n * 2^e to a float32
Round24(n, e) ==
  LET a == Abs(n)
      len == BitLen(a)
  IN IF a = 0 THEN F32Zero
     ELSE IF len <= 24
       THEN [m |-> n * 2^(24 - len), e |-> e - (24 - len)]
       ELSE LET k == len - 24
                q == a \div 2^k
                r == a % 2^k
                half == 2^(k - 1)
                up == r > half \/ (r = half /\ q % 2 = 1)
                q2 == IF up THEN q + 1 ELSE q
            IN IF q2 = 2^24
                 THEN [m |-> Sign(n) * 2^23, e |-> e + k + 1]
                 ELSE [m |-> Sign(n) * q2, e |-> e + k]

\* m * 2^e with the trailing zero bits of m moved into e
RECURSIVE Strip(_)
Strip(a) ==
  IF a.m = 0 \/ a.m % 2 = 1 THEN a
  ELSE Strip([m |-> a.m \div 2, e |-> a.e + 1])

\* float32 addition: exact sum, rounded once
AddF32(a, c) ==
  IF a.m = 0 THEN c
  ELSE IF c.m = 0 THEN a
  ELSE LET sa == Strip(a)
           sc == Strip(c)
           e0 == IF sa.e < sc.e THEN sa.e ELSE sc.e
       IN Round24(sa.m * 2^(sa.e - e0) + sc.m * 2^(sc.e - e0), e0)

NegF32(a) == [m |-> 0 - a.m, e |-> a.e]

\* multiplication or division by a power of two is exact
ScaleF32(a, k) == IF a.m = 0 THEN a ELSE [m |-> a.m, e |-> a.e + k]

\* float32 product with an integer constant 0 < c < 2^8, rounded once;
\* the 32-bit product is kept as q * 2^8 + r
MulSmallF32(a, c) ==
  LET am == Abs(a.m)
      lowc == (am % 256) * c
      q == (am \div 256) * c + lowc \div 256
      r == lowc % 256
  IN IF a.m = 0 THEN F32Zero
     ELSE IF q < 2^23 THEN Round24(Sign(a.m) * (q * 256 + r), a.e)
     ELSE LET up == r > 128 \/ (r = 128 /\ q % 2 = 1)
              q2 == IF up THEN q + 1 ELSE q
          IN IF q2 = 2^24
               THEN [m |-> Sign(a.m) * 2^23, e |-> a.e + 9]
               ELSE [m |-> Sign(a.m) * q2, e |-> a.e + 8]

F32Half == [m |-> 2^23, e |-> 0 - 24]

F32One == [m |-> 2^23, e |-> 0 - 23]

\* a <= c for float32 values
LeqF32(a, c) == AddF32(a, NegF32(c)).m <= 0

\* n steps of the binary long division of r / 255, appended to q
RECURSIVE LongDiv(_, _, _)
LongDiv(r, n, q) ==
  IF n = 0 THEN [q |-> q, r |-> r]
  ELSE IF 2 * r >= 255 THEN LongDiv(2 * r - 255, n - 1, 2 * q + 1)
  ELSE LongDiv(2 * r, n - 1, 2 * q)

\* x / 255.0 in float64 for a uint8 x: the 53-bit mantissa is
\* hi * 2^29 + lo, the value (hi * 2^29 + lo) * 2^e
DivF64(x) ==
  IF x = 0 THEN [hi |-> 0, lo |-> 0, e |-> 0]
  ELSE LET k == 8 - BitLen(x) + (IF x = 255 THEN 0 ELSE 1)
           top == LongDiv(x * 2^k - 255, 23, 1)
           low == LongDiv(top.r, 29, 0)
           up == 2 * low.r > 255
           lo2 == IF up THEN low.q + 1 ELSE low.q
           hi2 == IF lo2 = 2^29 THEN top.q + 1 ELSE top.q
           lo3 == IF lo2 = 2^29 THEN 0 ELSE lo2
       IN IF hi2 = 2^24
            THEN [hi |-> 2^23, lo |-> 0, e |-> 0 - 52 - k + 1]
            ELSE [hi |-> hi2, lo |-> lo3, e |-> 0 - 52 - k]

\* astype(np.float32) of a float64
F64ToF32(d) ==
  IF d.hi = 0 THEN F32Zero
  ELSE LET up == d.lo > 2^28 \/ (d.lo = 2^28 /\ d.hi % 2 = 1)
           m2 == IF up THEN d.hi + 1 ELSE d.hi
       IN IF m2 = 2^24 THEN [m |-> 2^23, e |-> d.e + 30]
          ELSE [m |-> m2, e |-> d.e + 29]

\* astype(np.uint8) of a float32: truncation toward zero, modulo 2^8
AsUint8(a) ==
  LET am == Abs(a.m)
      t == IF a.e >= 0 THEN am * 2^(a.e)
           ELSE IF 0 - a.e >= 24 THEN 0
           ELSE am \div 2^(0 - a.e)
  IN (Sign(a.m) * t) % 256

\* ------------------------------------------------------------- images
\* An image is uniform in colour: [path, pix] is the uint8 image decoded
\* from file `path`, every sample equal to pix; [path, val] is its float32
\* form. `path` records the file the samples come from (0: none).
Imread(d, path) == [path |-> path, pix |-> d[path]]

\* resizing a uniform uint8 image gives the uniform image of the same
\* colour at the target size
Imresize(image) == [path |-> image.path, pix |-> image.pix]

\* variant of Normalize that leaves out the centring (image -= 0.5)
NormalizeNoCentre(pix) == ScaleF32(F64ToF32(DivF64(pix)), 1)

\* (image/255.0).astype(float32); image -= 0.5; image *= 2.0
Normalize(pix) ==
  ScaleF32(AddF32(F64ToF32(DivF64(pix)), NegF32(F32Half)), 1)

\* variant of Denormalize that leaves out the + 0.5
DenormalizeNoOffset(val) == AsUint8(MulSmallF32(ScaleF32(val, 0 - 1), 255))

\* (((row/2.0)+0.5)*255.0).astype(np.uint8)
Denormalize(val) ==
  AsUint8(MulSmallF32(AddF32(ScaleF32(val, 0 - 1), F32Half), 255))

NormalizeImage(image) == [path |-> image.path, val |-> Normalize(image.pix)]

DenormalizeImage(row) == [path |-> row.path, pix |-> Denormalize(row.val)]

\* np.zeros(...) row of the batch tensor
ZeroRow == [path |-> 0, val |-> F32Zero]

\* ----------------------------------------------------------- decoding
\* np.argmax of one row: 0-based index of the first maximal score
Argmax(row) ==
  (CHOOSE k \in 1..Len(row) :
      /\ \A j \in 1..Len(row) : row[j] <= row[k]
      /\ \A j \in 1..(k - 1) : row[j] < row[k]) - 1

\* number of axes np.squeeze leaves of an nrows x ncols array
SqueezeNdim(nrows, ncols) ==
  (IF nrows = 1 THEN 0 ELSE 1) + (IF ncols = 1 THEN 0 ELSE 1)

\* variant of ClassIndex that never shifts
ClassIndexNoShift(prediction, nc) == prediction

\* variant of ClassIndex that tests num_classes >= 1001
ClassIndexAtLeast(prediction, nc) ==
  IF nc >= 1001 THEN prediction ELSE prediction + 1

\* predictions[i] if num_classes == 1001 else predictions[i]+1
ClassIndex(prediction, nc) ==
  IF nc = 1001 THEN prediction ELSE prediction + 1

\* ------------------------------------------------------------ helpers
Count(s, x) == Cardinality({k \in 1..Len(s) : s[k] = x})

Pos(s, x) == CHOOSE k \in 1..Len(s) : s[k] = x

NoBatch == [given |-> FALSE, batch |-> <<>>]

NoOutputs == [logits |-> <<>>, images |-> <<>>]

\* an exception leaves the function: neither variant has a try block
Raise(err) == pc' = "aborted" /\ error' = err

\* ---------------------------------------------------------- the state
\* One call of one feeding variant on a directory of image files; path k
\* of the directory holds the image dir[k].
Init ==
  /\ variant \in {"queue", "placeholder"}
  /\ \E n \in 0..MaxFiles : dir \in [1..n -> PixelSamples]
  /\ batch_size \in 1..MaxBatch
  /\ num_classes \in NumClassesValues
  /\ image_files = <<>>
  /\ pc = "find"
  /\ i = 0
  /\ batch_images = <<>>
  /\ queue = <<>>
  /\ fed = NoBatch
  /\ outputs = NoOutputs
  /\ predictions = <<>>
  /\ displayed = <<>>
  /\ error = "none"
  /\ log = <<>>

\* utils.find_files: the ordered list of the paths of the directory;
\* the explicit-batch variant then allocates the zero batch tensor
FindFiles ==
  /\ pc = "find"
  /\ image_files' = [k \in 1..Len(dir) |-> k]
  /\ IF variant = "queue"
       THEN /\ pc' = "enqueue"
            /\ UNCHANGED batch_images
       ELSE /\ pc' = "load"
            /\ batch_images' = [k \in 1..batch_size |-> ZeroRow]
  /\ UNCHANGED <<variant, dir, batch_size, num_classes, i, queue, fed,
                 outputs, predictions, displayed, error, log>>

\* variant of Enqueue that goes on to the forward pass without enqueuing
EnqueueSkipped ==
  /\ pc = "enqueue"
  /\ pc' = "forward"
  /\ UNCHANGED <<variant, dir, image_files, batch_size, num_classes, i,
                 batch_images, queue, fed, outputs, predictions, displayed,
                 error, log>>

\* feature_extractor.enqueue_image_files(image_files) returns
Enqueue ==
  /\ pc = "enqueue"
  /\ queue' = image_files
  /\ log' = Append(log, "enqueue_image_files")
  /\ pc' = "forward"
  /\ UNCHANGED <<variant, dir, image_files, batch_size, num_classes, i,
                 batch_images, fed, outputs, predictions, displayed, error>>

\* feature_extractor.enqueue_image_files(image_files) raises
EnqueueFails ==
  /\ pc = "enqueue"
  /\ log' = log \o <<"enqueue_image_files", "backend_error">>
  /\ Raise("BackendInvocationError")
  /\ UNCHANGED <<variant, dir, image_files, batch_size, num_classes, i,
                 batch_images, queue, fed, outputs, predictions, displayed>>

\* variant of PLoad that leaves the zero row where a path is missing
PLoadPadded ==
  /\ pc = "load"
  /\ i < batch_size
  /\ batch_images' = IF i >= Len(image_files) THEN batch_images
       ELSE [batch_images EXCEPT ![i + 1] =
               NormalizeImage(Imresize(Imread(dir, image_files[i + 1])))]
  /\ i' = i + 1
  /\ log' = Append(log, "preprocess")
  /\ pc' = IF i + 1 = batch_size THEN "forward" ELSE "load"
  /\ UNCHANGED <<variant, dir, image_files, batch_size, num_classes, queue,
                 fed, outputs, predictions, displayed, error>>

\* One iteration of the loading loop of the explicit-batch variant
PLoad ==
  /\ pc = "load"
  /\ i < batch_size
  /\ IF i >= Len(image_files)
       THEN /\ Raise("IndexError")
            /\ UNCHANGED <<batch_images, i, log>>
       ELSE /\ batch_images' = [batch_images EXCEPT ![i + 1] =
                 NormalizeImage(Imresize(Imread(dir, image_files[i + 1])))]
            /\ i' = i + 1
            /\ log' = Append(log, "preprocess")
            /\ pc' = IF i + 1 = batch_size THEN "forward" ELSE "load"
            /\ UNCHANGED error
  /\ UNCHANGED <<variant, dir, image_files, batch_size, num_classes, queue,
                 fed, outputs, predictions, displayed>>

\* the batch handed to feed_forward_batch: none in the streaming variant
ForwardInput ==
  IF variant = "queue" THEN NoBatch
  ELSE [given |-> TRUE, batch |-> batch_images]

\* the raw images the backend reports for a batch drawn from its queue,
\* starting at queue position rot + 1
Dequeued(rot) ==
  [k \in 1..batch_size |->
     Imread(dir, queue[((k - 1 + rot) % Len(queue)) + 1])]

\* feature_extractor.feed_forward_batch(..., fetch_images=True) returns
\* one score row per image of the batch
Forward ==
  /\ pc = "forward"
  /\ variant = "queue" => Len(queue) > 0
  /\ fed' = ForwardInput
  /\ log' = Append(log, "feed_forward_batch")
  /\ \E logits \in [1..batch_size -> Rows] :
       \E rot \in 0..(IF variant = "queue" /\ Len(queue) > 1 THEN 1 ELSE 0) :
         outputs' = [logits |-> logits,
                     images |-> IF variant = "queue" THEN Dequeued(rot)
                                ELSE [k \in 1..batch_size |->
                                        DenormalizeImage(batch_images[k])]]
  /\ pc' = "predict"
  /\ UNCHANGED <<variant, dir, image_files, batch_size, num_classes, i,
                 batch_images, queue, predictions, displayed, error>>

\* variant of ForwardFails that catches the failure and calls again
ForwardFailsRetried ==
  /\ pc = "forward"
  /\ fed' = ForwardInput
  /\ log' = log \o <<"feed_forward_batch", "backend_error">>
  /\ UNCHANGED <<variant, dir, image_files, batch_size, num_classes, i,
                 batch_images, queue, outputs, predictions, displayed,
                 pc, error>>

\* feature_extractor.feed_forward_batch(...) raises
ForwardFails ==
  /\ pc = "forward"
  /\ fed' = ForwardInput
  /\ log' = log \o <<"feed_forward_batch", "backend_error">>
  /\ Raise("BackendInvocationError")
  /\ UNCHANGED <<variant, dir, image_files, batch_size, num_classes, i,
                 batch_images, queue, outputs, predictions, displayed>>

\* predictions = np.argmax(np.squeeze(outputs[0]), axis=1)
Predict ==
  /\ pc = "predict"
  /\ IF SqueezeNdim(Len(outputs.logits), RowLen) < 2
       THEN /\ Raise("AxisError")
            /\ UNCHANGED <<predictions, i>>
       ELSE /\ predictions' = [k \in 1..Len(outputs.logits) |->
                                 Argmax(outputs.logits[k])]
            /\ i' = 0
            /\ pc' = "display"
            /\ UNCHANGED error
  /\ UNCHANGED <<variant, dir, image_files, batch_size, num_classes,
                 batch_images, queue, fed, outputs, displayed, log>>

\* variant of QDisplay that shows the images the backend returned
QDisplayFetched ==
  /\ pc = "display"
  /\ variant = "queue"
  /\ i < batch_size
  /\ displayed' = Append(displayed,
       [image |-> outputs.images[i + 1],
        class_index |-> ClassIndex(predictions[i + 1], num_classes)])
  /\ i' = i + 1
  /\ log' = Append(log, "display")
  /\ pc' = IF i + 1 = batch_size THEN "done" ELSE "display"
  /\ UNCHANGED <<variant, dir, image_files, batch_size, num_classes,
                 batch_images, queue, fed, outputs, predictions, error>>

\* One iteration of the display loop of the streaming variant
QDisplay ==
  /\ pc = "display"
  /\ variant = "queue"
  /\ i < batch_size
  /\ IF i >= Len(image_files)
       THEN /\ Raise("IndexError")
            /\ UNCHANGED <<displayed, i, log>>
       ELSE /\ displayed' = Append(displayed,
                 [image |-> Imread(dir, image_files[i + 1]),
                  class_index |-> ClassIndex(predictions[i + 1], num_classes)])
            /\ i' = i + 1
            /\ log' = Append(log, "display")
            /\ pc' = IF i + 1 = batch_size THEN "done" ELSE "display"
            /\ UNCHANGED error
  /\ UNCHANGED <<variant, dir, image_files, batch_size, num_classes,
                 batch_images, queue, fed, outputs, predictions>>

\* variant of PDisplay that reads the shown image from disk again
PDisplayReread ==
  /\ pc = "display"
  /\ variant = "placeholder"
  /\ i < batch_size
  /\ displayed' = Append(displayed,
       [image |-> Imread(dir, image_files[i + 1]),
        class_index |-> ClassIndex(predictions[i + 1], num_classes)])
  /\ i' = i + 1
  /\ log' = Append(log, "display")
  /\ pc' = IF i + 1 = batch_size THEN "done" ELSE "display"
  /\ UNCHANGED <<variant, dir, image_files, batch_size, num_classes,
                 batch_images, queue, fed, outputs, predictions, error>>

\* One iteration of the display loop of the explicit-batch variant
PDisplay ==
  /\ pc = "display"
  /\ variant = "placeholder"
  /\ i < batch_size
  /\ displayed' = Append(displayed,
       [image |-> DenormalizeImage(batch_images[i + 1]),
        class_index |-> ClassIndex(predictions[i + 1], num_classes)])
  /\ i' = i + 1
  /\ log' = Append(log, "display")
  /\ pc' = IF i + 1 = batch_size THEN "done" ELSE "display"
  /\ UNCHANGED <<variant, dir, image_files, batch_size, num_classes,
                 batch_images, queue, fed, outputs, predictions, error>>

Next ==
  \/ FindFiles
  \/ Enqueue
  \/ EnqueueFails
  \/ PLoad
  \/ Forward
  \/ ForwardFails
  \/ Predict
  \/ QDisplay
  \/ PDisplay

Spec == Init /\ [][Next]_vars

\* ------------------------------------------- the pixel specification
\* The normalization of the loading loop and the denormalization of the
\* display loop applied to one image, for every uint8 sample value.
InitPixel ==
  /\ variant = "placeholder"
  /\ dir \in [1..1 -> 0..255]
  /\ batch_size = 1
  /\ num_classes = 1001
  /\ image_files = <<1>>
  /\ pc = "pix_raw"
  /\ i = 0
  /\ batch_images = <<ZeroRow>>
  /\ queue = <<>>
  /\ fed = NoBatch
  /\ outputs = NoOutputs
  /\ predictions = <<>>
  /\ displayed = <<>>
  /\ error = "none"
  /\ log = <<>>

PixNormalize ==
  /\ pc = "pix_raw"
  /\ batch_images' = [batch_images EXCEPT ![1] =
       NormalizeImage(Imresize(Imread(dir, image_files[1])))]
  /\ pc' = "pix_normalized"
  /\ UNCHANGED <<variant, dir, image_files, batch_size, num_classes, i,
                 queue, fed, outputs, predictions, displayed, error, log>>

PixDenormalize ==
  /\ pc = "pix_normalized"
  /\ displayed' = <<[image |-> DenormalizeImage(batch_images[1]),
                     class_index |-> 0]>>
  /\ pc' = "pix_shown"
  /\ UNCHANGED <<variant, dir, image_files, batch_size, num_classes, i,
                 batch_images, queue, fed, outputs, predictions, error, log>>

NextPixel ==
  \/ PixNormalize
  \/ PixDenormalize

SpecPixel == InitPixel /\ [][NextPixel]_vars

\* ------------------------------------------------------------ claims
Supported == {1000, 1001}

\* C1: in both variants every class index handed to the display step is
\* the arg-max of the image's own output row when num_classes is 1001 and
\* that arg-max plus one when num_classes is 1000.
C1_LabelShift ==
  \A k \in 1..Len(displayed) :
    LET a == Argmax(outputs.logits[k])
    IN /\ num_classes = 1001 => displayed[k].class_index = a
       /\ num_classes = 1000 => displayed[k].class_index = a + 1

C1_Witness ==
  /\ num_classes = 1000
  /\ \E k \in 1..Len(displayed) :
       Argmax(outputs.logits[k]) = 1 /\ displayed[k].class_index = 2

\* C2 as stated: with num_classes outside {1000, 1001} decoding fails with
\* UnsupportedClassCountError and no class index is emitted.
C2_UnsupportedCountFails ==
  num_classes \notin Supported =>
    /\ displayed = <<>>
    /\ pc \in {"display", "done"} => error = "UnsupportedClassCountError"

\* C2 amended: with num_classes outside {1000, 1001} no
\* UnsupportedClassCountError is raised and every class index emitted is
\* the arg-max of the image's row plus one, as for 1000 classes.
C2_UnsupportedCountShifts ==
  num_classes \notin Supported =>
    /\ error # "UnsupportedClassCountError"
    /\ \A k \in 1..Len(displayed) :
         displayed[k].class_index = Argmax(outputs.logits[k]) + 1

C2_Witness ==
  /\ num_classes = 1002
  /\ pc = "done"
  /\ Len(displayed) = batch_size
  /\ displayed[1].class_index = 1

\* C3: normalizing a uint8 sample and denormalizing the result gives a
\* uint8 sample at most one intensity unit away from the original.
C3_RoundTrip ==
  pc = "pix_shown" =>
    LET x == dir[1]
        y == displayed[1].image.pix
    IN y \in 0..255 /\ x - y <= 1 /\ y - x <= 1

C3_Witness ==
  pc = "pix_shown" /\ dir[1] = 1 /\ displayed[1].image.pix = 0

\* C4 as stated: a run with a supported class count, at least batch_size
\* images and no backend failure ends with exactly batch_size results, result k showing the
\* image of path k with the label decoded from row k of the logits.
C4_PositionalCorrespondence ==
  (/\ pc \in {"done", "aborted"}
   /\ num_classes \in Supported
   /\ Len(image_files) >= batch_size
   /\ Count(log, "backend_error") = 0) =>
    /\ Len(displayed) = batch_size
    /\ \A k \in 1..Len(displayed) :
         /\ displayed[k].image.path = image_files[k]
         /\ displayed[k].class_index =
              ClassIndex(Argmax(outputs.logits[k]), num_classes)

\* C5 as stated: the streaming variant shows, next to prediction k, the
\* k-th image returned by the fetch_images=True call.
C5_StreamingShowsFetched ==
  variant = "queue" =>
    \A k \in 1..Len(displayed) : displayed[k].image = outputs.images[k]

\* C5 amended: the streaming variant shows, next to prediction k, the image
\* read from disk at path k of the resolved list; the images the backend
\* returned are not used.
C5_StreamingShowsDiskImage ==
  variant = "queue" =>
    \A k \in 1..Len(displayed) :
      displayed[k].image = Imread(dir, image_files[k])

C5_Witness ==
  /\ variant = "queue"
  /\ \E k \in 1..Len(displayed) :
       /\ displayed[k].image # outputs.images[k]
       /\ displayed[k].image.path = image_files[k]

\* C6: in the explicit-batch variant the tensor handed to the forward pass
\* holds at row k the normalized image of path k, it is the tensor still
\* held at display time, and the image shown for result k is the
\* denormalization of its row k.
C6_FedTensorShown ==
  variant = "placeholder" =>
    /\ fed.given =>
         /\ fed.batch = batch_images
         /\ Len(fed.batch) = batch_size
         /\ \A k \in 1..batch_size :
              fed.batch[k] =
                NormalizeImage(Imresize(Imread(dir, image_files[k])))
    /\ \A k \in 1..Len(displayed) :
         /\ fed.given
         /\ displayed[k].image = DenormalizeImage(fed.batch[k])

C6_Witness ==
  /\ variant = "placeholder"
  /\ pc = "done"
  /\ displayed[1].image = DenormalizeImage(fed.batch[1])
  /\ displayed[1].image.pix # dir[image_files[1]]

\* C7: a backend failure in enqueue_image_files or feed_forward_batch
\* leaves the variant as the backend raised it: the run is aborted, the
\* failing call is the last call made, no call was repeated, nothing was
\* decoded and nothing was displayed.
C7_BackendFailureAborts ==
  Count(log, "backend_error") > 0 =>
    /\ pc = "aborted"
    /\ error = "BackendInvocationError"
    /\ log[Len(log)] = "backend_error"
    /\ Count(log, "backend_error") = 1
    /\ Count(log, "feed_forward_batch") <= 1
    /\ Count(log, "enqueue_image_files") <= 1
    /\ predictions = <<>>
    /\ displayed = <<>>

C7_Witness ==
  /\ error = "BackendInvocationError"
  /\ Count(log, "feed_forward_batch") = 1
  /\ pc = "aborted"

\* C8: the forward pass is called at most once and exactly once in a run
\* that gets to decoding; the streaming variant enqueues the whole path
\* list once, before the forward pass, and passes no batch; the
\* explicit-batch variant never enqueues and has preprocessed batch_size
\* images before the forward pass; every display follows the forward pass.
C8_CallOrdering ==
  LET nf == Count(log, "feed_forward_batch")
      ne == Count(log, "enqueue_image_files")
      np == Count(log, "preprocess")
  IN /\ nf <= 1
     /\ pc \in {"predict", "display", "done"} => nf = 1
     /\ variant = "queue" =>
          /\ ne <= 1
          /\ np = 0
          /\ nf = 1 =>
               /\ ne = 1
               /\ Pos(log, "enqueue_image_files") < Pos(log, "feed_forward_batch")
               /\ queue = image_files
               /\ ~fed.given
     /\ variant = "placeholder" =>
          /\ ne = 0
          /\ nf = 1 =>
               /\ np = batch_size
               /\ fed.given
               /\ \A k \in 1..Len(log) :
                    log[k] = "preprocess" => k < Pos(log, "feed_forward_batch")
     /\ \A k \in 1..Len(log) :
          log[k] = "display" =>
            /\ nf = 1
            /\ Pos(log, "feed_forward_batch") < k
            /\ outputs # NoOutputs

C8_Witness ==
  /\ variant = "queue"
  /\ pc = "done"
  /\ Count(log, "enqueue_image_files") = 1
  /\ Count(log, "feed_forward_batch") = 1
  /\ Count(log, "display") = batch_size

\* C9: every normalized sample written into the batch tensor lies in
\* [-1.0, 1.0]; 0 is written as -1.0 and 255 as 1.0.
C9_NormalizedRange ==
  pc \in {"pix_normalized", "pix_shown"} =>
    LET x == dir[1]
        v == batch_images[1].val
    IN /\ LeqF32(NegF32(F32One), v)
       /\ LeqF32(v, F32One)
       /\ x = 0 => v = NegF32(F32One)
       /\ x = 255 => v = F32One

C9_Witness ==
  pc = "pix_normalized" /\ dir[1] = 255 /\ batch_images[1].val = F32One

\* C10: with fewer paths than batch_size the explicit-batch variant never
\* gets past the loading loop: it stops there with an out-of-range error
\* at the first missing path, no forward pass, no result displayed.
C10_TooFewImagesFails ==
  (variant = "placeholder" /\ pc # "find" /\ Len(image_files) < batch_size) =>
    /\ pc \in {"load", "aborted"}
    /\ i <= Len(image_files)
    /\ pc = "aborted" => (error = "IndexError" /\ i = Len(image_files))
    /\ Count(log, "feed_forward_batch") = 0
    /\ ~fed.given
    /\ outputs = NoOutputs
    /\ displayed = <<>>

C10_Witness ==
  /\ variant = "placeholder"
  /\ Len(dir) = 0
  /\ pc = "aborted"
  /\ error = "IndexError"
  /\ Count(log, "feed_forward_batch") = 0

====
